---- MODULE Spec2Model ----
EXTENDS Integers, Sequences, FiniteSets, TLC

(***************************************************************************)
(* Model of                                                                *)
(*   - AmqpOpenService.DescribeAmqpVirtualHost                             *)
(*       (alicloud/service_alicloud_amqp_open.go)                          *)
(*   - CreateTokenAutoUpdateClient / CreateNormalInterface                 *)
(*       (vendor/.../aliyun-log-go-sdk/client_interface.go)                *)
(*   - the resource id format of alicloud_vpc_traffic_mirror_filter_       *)
(*       ingress_rule (website/docs/r/...ingress_rule.html.markdown)       *)
(*                                                                         *)
(* Strings that the code takes apart (resource ids, names) are sequences   *)
(* of one-character strings.  Time is counted in ticks of one minute; a    *)
(* backoff sleep is rounded up to whole ticks.                             *)
(***************************************************************************)

VARIABLES
    pc,         \* position of DescribeAmqpVirtualHost
    conn,       \* NewOnsproxyClient: "none" before the call, then "ok" or "failed"
    id,         \* the id argument
    listing,    \* the server's virtual hosts, page by page (names only)
    parts,      \* parts of the id (ParseResourceId)
    request,    \* the request map
    lastSent,   \* the request map as DoRequest last got it
    response,   \* the last response
    err,        \* the function's err variable (an SDK error code or "nil")
    object,     \* returned object: <<>> is nil, <<h>> is the host h
    retErr,     \* returned error
    elapsed,    \* ticks since resource.Retry of the current page started
    attempts,   \* DoRequest calls of the current page
    waits,      \* wait() calls of the current page
    pageReqs,   \* page tokens requested so far, one entry per page
    tauc,       \* the TokenAutoUpdateClient
    ctor,       \* CreateTokenAutoUpdateClient: its position, and what it did
    flusher,    \* the flushSTSToken goroutine: "none", "select" or "stopped"
    timer,      \* TRUE once the goroutine's time.After channel is ready
    shutdown,   \* TRUE once the shutdown channel is closed
    op,         \* an operation of the client
    flushes,    \* token updates done by the goroutine
    ridIn,      \* traffic mirror rule: the two component ids
    ridId,      \* the composed resource id
    ridOut      \* the parts an import splits the id into

amqpVars  == <<pc, conn, id, listing, parts, request, lastSent, response, err, object, retErr,
               elapsed, attempts, waits, pageReqs>>
tokenVars == <<tauc, ctor, flusher, timer, shutdown, op, flushes>>
ridVars   == <<ridIn, ridId, ridOut>>
vars      == <<amqpVars, tokenVars, ridVars>>

-----------------------------------------------------------------------------
(* Bounds *)

MaxIdLen    == 2    \* longest id, in characters
MaxPages    == 2    \* pages of a listing
MaxHosts    == 2    \* virtual hosts on one page
MaxWaitTicks == 2   \* longest single backoff sleep, in ticks
MaxFlushes  == 2    \* token updates of the goroutine in one run
MaxCompLen  == 2    \* longest component of a traffic mirror rule id

(* Program constants *)

RetryTimeout == 5   \* resource.Retry(5*time.Minute, ...), in ticks
MaxResults   == 100
NoToken      == 0   \* the empty NextToken ""
MaxTryTimes  == 3   \* maxTryTimes of a TokenAutoUpdateClient

-----------------------------------------------------------------------------
(* Strings *)

SeqsUpTo(S, n) == UNION {[1..k -> S] : k \in 0..n}

IdChars    == {"a", ":"}
VHostNames == {<<"a">>, <<"b">>}
Ids        == SeqsUpTo(IdChars, MaxIdLen)

\* strings.Split(s, sep) for a one-character sep
RECURSIVE Split(_, _)
Split(s, sep) ==
    IF \A i \in 1..Len(s) : s[i] # sep
    THEN <<s>>
    ELSE LET i == CHOOSE k \in 1..Len(s) :
                      s[k] = sep /\ \A j \in 1..(k-1) : s[j] # sep
         IN  <<SubSeq(s, 1, i-1)>> \o Split(SubSeq(s, i+1, Len(s)), sep)

ParseResourceId(s, length) ==
    LET ps == Split(s, ":")
    IN  [parts |-> ps,
         err   |-> IF Len(ps) # length THEN "InvalidResourceId" ELSE "nil"]

-----------------------------------------------------------------------------
(* Errors *)

NilError == [msg |-> "nil", cause |-> "nil"]
WrapError(e) == [msg |-> "WrapError", cause |-> e]
WrapErrorf(e, msg) == [msg |-> msg, cause |-> e]
NotFoundError == "ResourceNotfound"     \* Error(GetNotFoundMessage("Amqp", id))

\* error codes DoRequest can come back with
SdkErrors == {"Throttling", "Forbidden"}

\* throttling is worth another attempt, the rest is terminal
NeedRetry(e) == e \in {"Throttling", "ServiceUnavailable"}

-----------------------------------------------------------------------------
(* The ListVirtualHosts service, as DescribeAmqpVirtualHost sees it *)

Region == "cn-hangzhou"

Pages    == SeqsUpTo(VHostNames, MaxHosts)
Listings == UNION {[1..k -> Pages] : k \in 1..MaxPages}

NilResponse == [hasData |-> FALSE, VirtualHosts |-> <<>>, NextToken |-> NoToken]

\* the virtual host objects of page k; Ref stands for the rest of the object
HostsOfPage(l, k) ==
    [i \in 1..Len(l[k]) |-> [Name |-> l[k][i], Ref |-> <<k, i>>]]

\* the page a request asks for: the first without a NextToken
PageIndex(req) ==
    IF "NextToken" \in DOMAIN req THEN req.NextToken ELSE 1

\* a successful response to req; page k links to page k+1
ListVirtualHosts(l, req) ==
    LET k == PageIndex(req)
    IN  [hasData      |-> TRUE,
         VirtualHosts |-> HostsOfPage(l, k),
         NextToken    |-> IF k < Len(l) THEN k + 1 ELSE NoToken]

\* a successful response without $.Data.VirtualHosts
MalformedResponse == [hasData |-> FALSE, VirtualHosts |-> <<>>, NextToken |-> NoToken]

-----------------------------------------------------------------------------
(* DescribeAmqpVirtualHost *)

NewRequest(ps) ==
    [RegionId |-> Region, InstanceId |-> ps[1], MaxResults |-> MaxResults]

\* EntryCheck without the check of the parse error
EntryCheck_NoParseCheck(clientOK, parseErr) ==
    IF ~clientOK THEN "clientError" ELSE "ok"

\* lines 19-27: which of the early returns is taken, if any
EntryCheck(clientOK, parseErr) ==
    IF ~clientOK THEN "clientError"
    ELSE IF parseErr # "nil" THEN "parseError"
    ELSE "ok"

\* AfterFailure treating every error as retryable
AfterFailure_AlwaysRetry(e) == "wait"

\* AfterFailure returning the retryable error without calling wait()
AfterFailure_NoWait(e) ==
    IF NeedRetry(e) THEN "retry" ELSE "retried"

\* lines 40-45: where a failed attempt goes: through wait() into another round
\* of resource.Retry, or out of it
AfterFailure(e) ==
    IF NeedRetry(e) THEN "wait" ELSE "retried"

\* RetryAgain allowing one more attempt when the timeout has just run out
RetryAgain_OffByOne(t) == t <= RetryTimeout

\* resource.Retry: another attempt while the timeout has not run out
RetryAgain(t) == t < RetryTimeout

\* FindHost taking the first host whatever its name
FindHost_AnyName(hosts, name) ==
    IF Len(hosts) > 0 THEN 1 ELSE 0

\* index of the first host named name, 0 if there is none
FindHost(hosts, name) ==
    IF \E i \in 1..Len(hosts) : hosts[i].Name = name
    THEN CHOOSE i \in 1..Len(hosts) :
             hosts[i].Name = name /\ \A j \in 1..(i-1) : hosts[j].Name # name
    ELSE 0

HasNextToken(resp) == resp.NextToken # NoToken

\* SetNextToken building the request anew and leaving the instance out
SetNextToken_Fresh(req, resp) ==
    [RegionId |-> req.RegionId, MaxResults |-> req.MaxResults,
     NextToken |-> resp.NextToken]

SetNextToken(req, resp) ==
    [k \in DOMAIN req \cup {"NextToken"} |->
        IF k = "NextToken" THEN resp.NextToken ELSE req[k]]

\* lines 18-33: the client, the id, the first request
Describe(clientOK) ==
    /\ pc = "idle"
    /\ LET p == ParseResourceId(id, 2)
           c == EntryCheck(clientOK, p.err)
       IN  IF c = "clientError"
           THEN /\ pc' = "done"
                /\ object' = <<>>
                /\ retErr' = WrapError("ClientFailure")
                /\ UNCHANGED <<parts, request>>
           ELSE IF c = "parseError"
           THEN /\ pc' = "done"
                /\ parts' = p.parts
                /\ object' = <<>>
                /\ retErr' = WrapError(p.err)
                /\ UNCHANGED request
           ELSE /\ pc' = "attempt"
                /\ parts' = p.parts
                /\ request' = NewRequest(p.parts)
                /\ UNCHANGED <<object, retErr>>
    /\ conn' = IF clientOK THEN "ok" ELSE "failed"
    /\ UNCHANGED <<id, listing, lastSent, response, err, elapsed, attempts, waits,
                   pageReqs>>
    /\ UNCHANGED <<tokenVars, ridVars>>

\* line 39, the request succeeds
DoRequestOK(wellFormed) ==
    /\ pc = "attempt"
    /\ lastSent' = request
    /\ response' = IF wellFormed THEN ListVirtualHosts(listing, request)
                                 ELSE MalformedResponse
    /\ err' = "nil"
    /\ attempts' = attempts + 1
    /\ pageReqs' = IF attempts = 0 THEN Append(pageReqs, PageIndex(request))
                                   ELSE pageReqs
    /\ pc' = "retried"
    /\ UNCHANGED <<conn, id, listing, parts, request, object, retErr, elapsed, waits>>
    /\ UNCHANGED <<tokenVars, ridVars>>

\* lines 39-45, the request fails with the SDK error e
DoRequestFail(e) ==
    /\ pc = "attempt"
    /\ lastSent' = request
    /\ err' = e
    /\ attempts' = attempts + 1
    /\ pageReqs' = IF attempts = 0 THEN Append(pageReqs, PageIndex(request))
                                   ELSE pageReqs
    /\ pc' = AfterFailure(e)
    /\ UNCHANGED <<conn, id, listing, parts, request, response, object, retErr,
                   elapsed, waits>>
    /\ UNCHANGED <<tokenVars, ridVars>>

\* line 42, wait() sleeps d ticks
Wait(d) ==
    /\ pc = "wait"
    /\ waits' = waits + 1
    /\ elapsed' = elapsed + d
    /\ pc' = "retry"
    /\ UNCHANGED <<lastSent, conn, id, listing, parts, request, response, err, object, retErr,
                   attempts, pageReqs>>
    /\ UNCHANGED <<tokenVars, ridVars>>

\* line 43 and resource.Retry: attempt again, or give up with the last error
Retry ==
    /\ pc = "retry"
    /\ pc' = IF RetryAgain(elapsed) THEN "attempt" ELSE "retried"
    /\ UNCHANGED <<lastSent, conn, id, listing, parts, request, response, err, object, retErr,
                   elapsed, attempts, waits, pageReqs>>
    /\ UNCHANGED <<tokenVars, ridVars>>

\* lines 49-76: what follows resource.Retry
AfterRetry ==
    /\ pc = "retried"
    /\ LET hosts == response.VirtualHosts
           i     == FindHost(hosts, parts[2])
       IN  IF err # "nil"
           THEN /\ pc' = "done"
                /\ object' = <<>>
                /\ retErr' = WrapErrorf(err, "DefaultErrorMsg")
                /\ UNCHANGED <<request, elapsed, attempts, waits>>
           ELSE IF ~response.hasData
           THEN /\ pc' = "done"
                /\ object' = <<>>
                /\ retErr' = WrapErrorf("unknown key Data", "FailedGetAttributeMsg")
                /\ UNCHANGED <<request, elapsed, attempts, waits>>
           ELSE IF Len(hosts) < 1
           THEN /\ pc' = "done"
                /\ object' = <<>>
                /\ retErr' = WrapErrorf(NotFoundError, "NotFoundWithResponse")
                /\ UNCHANGED <<request, elapsed, attempts, waits>>
           ELSE IF i # 0
           THEN /\ pc' = "done"
                /\ object' = <<hosts[i]>>
                /\ retErr' = NilError
                /\ UNCHANGED <<request, elapsed, attempts, waits>>
           ELSE IF HasNextToken(response)
           THEN /\ pc' = "attempt"
                /\ request' = SetNextToken(request, response)
                /\ elapsed' = 0
                /\ attempts' = 0
                /\ waits' = 0
                /\ UNCHANGED <<object, retErr>>
           ELSE /\ pc' = "done"
                /\ object' = <<>>
                /\ retErr' = WrapErrorf(NotFoundError, "NotFoundWithResponse")
                /\ UNCHANGED <<request, elapsed, attempts, waits>>
    /\ UNCHANGED <<conn, id, listing, parts, lastSent, response, err, pageReqs>>
    /\ UNCHANGED <<tokenVars, ridVars>>


-----------------------------------------------------------------------------
(* CreateTokenAutoUpdateClient and the client it returns *)

Endpoint == "cn-hangzhou.log.aliyuncs.com"

\* what a call of tokenUpdateFunc can return
TokenResults ==
    [accessKeyID : {"ak1", "ak2"}, accessKeySecret : {"sk1"},
     securityToken : {"st1", "st2"}, expireTime : {10, 20}, err : {"nil"}]
    \cup
    {[accessKeyID |-> "", accessKeySecret |-> "", securityToken |-> "",
      expireTime |-> 0, err |-> "StsError"]}

NoResult ==
    [accessKeyID |-> "", accessKeySecret |-> "", securityToken |-> "",
     expireTime |-> 0, err |-> "nil"]

\* CreateNormalInterface handing the secret and the token over in the wrong order
CreateNormalInterface_Swapped(endpoint, accessKeyID, accessKeySecret, securityToken) ==
    [Endpoint        |-> endpoint,
     AccessKeyID     |-> accessKeyID,
     AccessKeySecret |-> securityToken,
     SecurityToken   |-> accessKeySecret]

CreateNormalInterface(endpoint, accessKeyID, accessKeySecret, securityToken) ==
    [Endpoint        |-> endpoint,
     AccessKeyID     |-> accessKeyID,
     AccessKeySecret |-> accessKeySecret,
     SecurityToken   |-> securityToken]

NilClient ==
    [made |-> FALSE, logClient |-> CreateNormalInterface("", "", "", ""),
     shutdown |-> "nil", maxTryTimes |-> 0, nextExpire |-> 0]

\* NewTauc that tries every operation once only
NewTauc_SingleTry(endpoint, res, shutdownChan) ==
    [made        |-> TRUE,
     logClient   |-> CreateNormalInterface(endpoint, res.accessKeyID,
                         res.accessKeySecret, res.securityToken),
     shutdown    |-> shutdownChan,
     maxTryTimes |-> 1,
     nextExpire  |-> res.expireTime]

\* NewTauc that leaves the shutdown channel out
NewTauc_NoShutdown(endpoint, res, shutdownChan) ==
    [made        |-> TRUE,
     logClient   |-> CreateNormalInterface(endpoint, res.accessKeyID,
                         res.accessKeySecret, res.securityToken),
     shutdown    |-> "nil",
     maxTryTimes |-> MaxTryTimes,
     nextExpire  |-> res.expireTime]

\* lines 28-37: the TokenAutoUpdateClient the constructor builds
NewTauc(endpoint, res, shutdownChan) ==
    [made        |-> TRUE,
     logClient   |-> CreateNormalInterface(endpoint, res.accessKeyID,
                         res.accessKeySecret, res.securityToken),
     shutdown    |-> shutdownChan,
     maxTryTimes |-> MaxTryTimes,
     nextExpire  |-> res.expireTime]

IdleOp == [state |-> "idle", tries |-> 0, fetched |-> 0, fetchErr |-> "nil",
           result |-> "none"]

\* line 24: the constructor calls tokenUpdateFunc
CtorCall(res) ==
    /\ ctor.pc = "init"
    /\ ctor' = [ctor EXCEPT !.pc = "called", !.res = res, !.calls = @ + 1]
    /\ UNCHANGED <<tauc, flusher, timer, shutdown, op, flushes>>
    /\ UNCHANGED <<amqpVars, ridVars>>

\* lines 25-27: the call failed
CtorFail ==
    /\ ctor.pc = "called"
    /\ ctor.res.err # "nil"
    /\ ctor' = [ctor EXCEPT !.pc = "returned", !.client = NilClient,
                            !.err = ctor.res.err]
    /\ UNCHANGED <<tauc, flusher, timer, shutdown, op, flushes>>
    /\ UNCHANGED <<amqpVars, ridVars>>

\* lines 28-39: build the client, start flushSTSToken, return the client
CtorBuild ==
    /\ ctor.pc = "called"
    /\ ctor.res.err = "nil"
    /\ tauc' = NewTauc(Endpoint, ctor.res, "shutdown")
    /\ flusher' = "select"
    /\ timer' = FALSE
    /\ ctor' = [ctor EXCEPT !.pc = "returned", !.client = tauc', !.err = "nil",
                            !.started = ctor.started + 1]
    /\ UNCHANGED <<shutdown, op, flushes>>
    /\ UNCHANGED <<amqpVars, ridVars>>

\* the owner of the shutdown channel closes it
CloseShutdown ==
    /\ ~shutdown
    /\ shutdown' = TRUE
    /\ UNCHANGED <<tauc, ctor, flusher, timer, op, flushes>>
    /\ UNCHANGED <<amqpVars, ridVars>>

\* fetchSTSToken: a token from tokenUpdateFunc goes into the inner client
FetchSTSToken(c, res) ==
    IF res.err = "nil"
    THEN [c EXCEPT !.logClient.AccessKeyID = res.accessKeyID,
                   !.logClient.AccessKeySecret = res.accessKeySecret,
                   !.logClient.SecurityToken = res.securityToken,
                   !.nextExpire = res.expireTime]
    ELSE c

\* flushSTSToken: the sleep before the next update is over
TimerFires ==
    /\ flusher = "select"
    /\ ~timer
    /\ timer' = TRUE
    /\ UNCHANGED <<tauc, ctor, flusher, shutdown, op, flushes>>
    /\ UNCHANGED <<amqpVars, ridVars>>

\* flushSTSToken: select takes the timer, fetches a token, sleeps again
FlushTrigger(res) ==
    /\ flusher = "select"
    /\ timer
    /\ flushes < MaxFlushes
    /\ tauc' = FetchSTSToken(tauc, res)
    /\ flushes' = flushes + 1
    /\ timer' = FALSE
    /\ UNCHANGED <<ctor, flusher, shutdown, op>>
    /\ UNCHANGED <<amqpVars, ridVars>>

\* flushSTSToken: select takes the closed shutdown channel and returns
FlushShutdown ==
    /\ flusher = "select"
    /\ tauc.shutdown = "shutdown"
    /\ shutdown
    /\ flusher' = "stopped"
    /\ UNCHANGED <<tauc, ctor, timer, shutdown, op, flushes>>
    /\ UNCHANGED <<amqpVars, ridVars>>

\* an operation of the returned client begins
OpStart ==
    /\ ctor.pc = "returned"
    /\ tauc.made
    /\ op.state = "idle"
    /\ op' = [IdleOp EXCEPT !.state = "try"]
    /\ UNCHANGED <<tauc, ctor, flusher, timer, shutdown, flushes>>
    /\ UNCHANGED <<amqpVars, ridVars>>

\* the inner client performs the operation: "ok", "Unauthorized" or another error
OpAttempt(outcome) ==
    /\ op.state = "try"
    /\ op.tries < tauc.maxTryTimes
    /\ op' = IF outcome = "Unauthorized"
             THEN [op EXCEPT !.tries = @ + 1, !.state = "fetch", !.result = outcome]
             ELSE [op EXCEPT !.tries = @ + 1, !.state = "done", !.result = outcome]
    /\ UNCHANGED <<tauc, ctor, flusher, timer, shutdown, flushes>>
    /\ UNCHANGED <<amqpVars, ridVars>>

\* processError on Unauthorized: fetch a token; retry if that worked and tries remain
OpFetch(res) ==
    /\ op.state = "fetch"
    /\ tauc' = FetchSTSToken(tauc, res)
    /\ op' = [op EXCEPT !.fetched = @ + 1,
                        !.fetchErr = res.err,
                        !.state = IF res.err = "nil" /\ op.tries < tauc.maxTryTimes
                                  THEN "try" ELSE "done"]
    /\ UNCHANGED <<ctor, flusher, timer, shutdown, flushes>>
    /\ UNCHANGED <<amqpVars, ridVars>>


-----------------------------------------------------------------------------
(* The id of an alicloud_vpc_traffic_mirror_filter_ingress_rule *)

\* ids the VPC service hands out: no ":" in them
ComponentIds == SeqsUpTo({"t", "1"}, MaxCompLen)

\* ComposeId with the two components the wrong way round
ComposeId_Swapped(filterId, ruleId) == ruleId \o <<":">> \o filterId

\* <traffic_mirror_filter_id>:<traffic_mirror_filter_ingress_rule_id>
ComposeId(filterId, ruleId) == filterId \o <<":">> \o ruleId

NotImported == [parts |-> <<>>, err |-> "none"]

\* the resource is created and gets its id
RidCreate ==
    /\ ridId = <<>>
    /\ ridId' = ComposeId(ridIn[1], ridIn[2])
    /\ UNCHANGED <<ridIn, ridOut>>
    /\ UNCHANGED <<amqpVars, tokenVars>>

\* terraform import with that id
RidImport ==
    /\ ridId # <<>>
    /\ ridOut = NotImported
    /\ ridOut' = ParseResourceId(ridId, 2)
    /\ UNCHANGED <<ridIn, ridId>>
    /\ UNCHANGED <<amqpVars, tokenVars>>

-----------------------------------------------------------------------------
(* Initial states *)

AmqpIdle ==
    /\ pc = "idle"
    /\ conn = "none"
    /\ parts = <<>>
    /\ request = [RegionId |-> Region]
    /\ lastSent = [RegionId |-> Region]
    /\ response = NilResponse
    /\ err = "nil"
    /\ object = <<>>
    /\ retErr = NilError
    /\ elapsed = 0
    /\ attempts = 0
    /\ waits = 0
    /\ pageReqs = <<>>

TokenIdle ==
    /\ tauc = NilClient
    /\ ctor = [pc |-> "init", res |-> NoResult, client |-> NilClient,
               err |-> "nil", calls |-> 0, started |-> 0]
    /\ flusher = "none"
    /\ timer = FALSE
    /\ shutdown = FALSE
    /\ op = IdleOp
    /\ flushes = 0

RidIdle ==
    /\ ridIn = <<<<>>, <<>>>>
    /\ ridId = <<>>
    /\ ridOut = NotImported

Init ==
    /\ id \in Ids
    /\ listing \in Listings
    /\ AmqpIdle
    /\ TokenIdle
    /\ RidIdle

Next ==
    \/ \E clientOK \in BOOLEAN : Describe(clientOK)
    \/ \E wellFormed \in BOOLEAN : DoRequestOK(wellFormed)
    \/ \E e \in SdkErrors : DoRequestFail(e)
    \/ \E d \in 1..MaxWaitTicks : Wait(d)
    \/ Retry
    \/ AfterRetry

Spec == Init /\ [][Next]_vars

\* the token client alone
TokenInit ==
    /\ id = <<>>
    /\ listing = <<<<>>>>
    /\ AmqpIdle
    /\ TokenIdle
    /\ RidIdle

TokenNext ==
    \/ \E res \in TokenResults : CtorCall(res)
    \/ CtorFail
    \/ CtorBuild
    \/ CloseShutdown
    \/ TimerFires
    \/ \E res \in TokenResults : FlushTrigger(res)
    \/ FlushShutdown
    \/ OpStart
    \/ \E outcome \in {"ok", "Unauthorized", "ProjectNotExist"} : OpAttempt(outcome)
    \/ \E res \in TokenResults : OpFetch(res)

SpecToken == TokenInit /\ [][TokenNext]_vars

\* Go's select takes a ready case: a closed shutdown channel is taken in the end
SpecTokenLive == SpecToken /\ WF_vars(FlushShutdown)

\* the resource id alone
RidInit ==
    /\ id = <<>>
    /\ listing = <<<<>>>>
    /\ AmqpIdle
    /\ TokenIdle
    /\ ridIn \in ComponentIds \X ComponentIds
    /\ ridId = <<>>
    /\ ridOut = NotImported

RidNext ==
    \/ RidCreate
    \/ RidImport

SpecRid == RidInit /\ [][RidNext]_vars

-----------------------------------------------------------------------------
(* Properties of DescribeAmqpVirtualHost *)

IdParses == Len(Split(id, ":")) = 2
Target   == Split(id, ":")[2]

PageHasTarget(k) == \E i \in 1..Len(listing[k]) : listing[k][i] = Target
ListingHasTarget == \E k \in 1..Len(listing) : PageHasTarget(k)

FirstMatchPage ==
    CHOOSE k \in 1..Len(listing) :
        PageHasTarget(k) /\ \A j \in 1..(k-1) : ~PageHasTarget(j)
FirstMatchHost ==
    LET k == FirstMatchPage
        i == CHOOSE n \in 1..Len(listing[k]) :
                 listing[k][n] = Target /\ \A m \in 1..(n-1) : listing[k][m] # Target
    IN  [Name |-> Target, Ref |-> <<k, i>>]

PagesUpTo(k) == [j \in 1..k |-> j]

NotFound == WrapErrorf(NotFoundError, "NotFoundWithResponse")

\* the call has returned, and neither an early return, nor a failed request,
\* nor a response without $.Data.VirtualHosts ended it
ListedToTheEnd ==
    /\ pc = "done"
    /\ conn = "ok"
    /\ IdParses
    /\ retErr.msg \notin {"DefaultErrorMsg", "FailedGetAttributeMsg"}

\* C1, as claimed: if the listing (all its pages) holds a virtual host named
\* as the id's second part, the call returns that host and a nil error, never a
\* host of another name, and requests no page after the one with the match.
C1_AsClaimed ==
    /\ (pc = "done" /\ object # <<>>) => object[1].Name = Target
    /\ (ListedToTheEnd /\ ListingHasTarget) =>
           /\ object = <<FirstMatchHost>>
           /\ retErr = NilError
           /\ pageReqs = PagesUpTo(FirstMatchPage)

\* C2: if no page of the listing holds a virtual host named as the id's
\* second part, the call returns nil and the not-found error, whether the
\* first page is empty (one page requested) or every page was gone through.
C2_NotFound ==
    (ListedToTheEnd /\ ~ListingHasTarget) =>
        /\ object = <<>>
        /\ retErr = NotFound
        /\ (listing[1] = <<>> => pageReqs = <<1>>)
        /\ ((\A k \in 1..Len(listing) : listing[k] # <<>>)
               => pageReqs = PagesUpTo(Len(listing)))

C2_Witness ==
    /\ ListedToTheEnd
    /\ ~ListingHasTarget
    /\ retErr = NotFound
    /\ \A k \in 1..Len(listing) : listing[k] # <<>>
    /\ Len(pageReqs) = 2

\* C3, as claimed: every failed request whose error NeedRetry calls retryable
\* is attempted again, and no other; a terminal error ends the retry at once
\* and is returned wrapped, with a nil object and no further request.
C3_StepAsClaimed ==
    /\ (pc = "attempt" /\ err' # "nil") =>
           pc' = IF NeedRetry(err') THEN "wait" ELSE "retried"
    /\ pc = "wait" => (pc' = "retry" /\ attempts' = attempts)
    /\ pc = "retry" => pc' = "attempt"
    /\ (pc = "retried" /\ err # "nil") =>
           /\ pc' = "done"
           /\ object' = <<>>
           /\ retErr' = WrapErrorf(err, "DefaultErrorMsg")
           /\ attempts' = attempts
           /\ pageReqs' = pageReqs
    /\ pc # "done"

C3_AsClaimed == [][C3_StepAsClaimed]_vars

\* C3, amended: a failed request is attempted again if and only if NeedRetry
\* calls its error retryable and the retry's timeout has not run out; a
\* terminal error ends the retry at once and is returned wrapped, with a nil
\* object and no further request.
C3_Step ==
    /\ (pc = "attempt" /\ err' # "nil") =>
           pc' = IF NeedRetry(err') THEN "wait" ELSE "retried"
    /\ pc = "wait" => (pc' = "retry" /\ attempts' = attempts)
    /\ pc = "retry" =>
           pc' = IF NeedRetry(err) /\ elapsed < RetryTimeout
                 THEN "attempt" ELSE "retried"
    /\ (pc = "retried" /\ err # "nil") =>
           /\ pc' = "done"
           /\ object' = <<>>
           /\ retErr' = WrapErrorf(err, "DefaultErrorMsg")
           /\ attempts' = attempts
           /\ pageReqs' = pageReqs
    /\ pc # "done"

C3_RetryIffRetryable == [][C3_Step]_vars

C3_Witness ==
    /\ pc = "done"
    /\ attempts = 2
    /\ retErr = WrapErrorf("Forbidden", "DefaultErrorMsg")

\* C4: the retry of one page is bounded: an attempt follows another only
\* after a retryable failure and while the timeout has not run out; once it
\* has, the call returns the last error instead of attempting again.
C4_BoundedRetry ==
    /\ attempts <= RetryTimeout
    /\ (pc = "attempt" /\ attempts > 0) =>
           (NeedRetry(err) /\ elapsed < RetryTimeout)
    /\ (pc = "retried" /\ err # "nil" /\ NeedRetry(err)) =>
           elapsed >= RetryTimeout
    /\ (pc = "done" /\ retErr.msg = "DefaultErrorMsg" /\ NeedRetry(retErr.cause)) =>
           (elapsed >= RetryTimeout /\ object = <<>>)

C4_Witness ==
    /\ pc = "done"
    /\ retErr = WrapErrorf("Throttling", "DefaultErrorMsg")
    /\ elapsed >= RetryTimeout
    /\ attempts = waits

\* C9: an id that does not parse into 2 parts, or a client that cannot be
\* created, ends the call with a nil object and the wrapped error before any
\* request is built or issued.
C9_EarlyReturn ==
    (conn = "failed" \/ (conn = "ok" /\ ~IdParses)) =>
        /\ pc = "done"
        /\ object = <<>>
        /\ retErr = WrapError(IF conn = "failed" THEN "ClientFailure"
                                                 ELSE "InvalidResourceId")
        /\ attempts = 0
        /\ pageReqs = <<>>
        /\ "InstanceId" \notin DOMAIN request

C9_Witness ==
    /\ pc = "done"
    /\ conn = "ok"
    /\ ~IdParses
    /\ retErr = WrapError("InvalidResourceId")

\* C10: within the retry of one page wait() runs exactly once after each
\* attempt that failed with a retryable error, before the next attempt, and
\* not after a success or a terminal error.
C10_OneWaitPerRetry ==
    /\ pc = "attempt" => waits = attempts
    /\ pc = "wait" => (waits + 1 = attempts /\ NeedRetry(err))
    /\ pc = "retry" => (waits = attempts /\ NeedRetry(err))
    /\ pc = "retried" =>
           waits = IF err # "nil" /\ NeedRetry(err) THEN attempts ELSE attempts - 1

C10_Witness ==
    /\ pc = "retried"
    /\ err = "nil"
    /\ attempts = 3
    /\ waits = 2

-----------------------------------------------------------------------------
(* Properties of CreateTokenAutoUpdateClient and its client *)

C6_ShutdownStops ==
    /\ (shutdown /\ flusher = "select") ~> (flusher = "stopped")
    /\ [][flusher = "stopped" => (flusher' = "stopped" /\ flushes' = flushes)]_vars

C6_Witness ==
    /\ shutdown
    /\ flusher = "stopped"
    /\ flushes > 0

\* C7: the constructor calls tokenUpdateFunc once; on its error it returns
\* (nil, that error) and starts no goroutine; otherwise the returned client's
\* inner client holds the key id, secret and token of that call, nextExpire
\* is the expireTime of that call, and flushSTSToken is started once.
C7_Constructor ==
    ctor.pc = "returned" =>
        /\ ctor.calls = 1
        /\ ctor.res.err # "nil" =>
               /\ ctor.client = NilClient
               /\ ctor.err = ctor.res.err
               /\ ctor.started = 0
               /\ flusher = "none"
        /\ ctor.res.err = "nil" =>
               /\ ctor.err = "nil"
               /\ ctor.client.made
               /\ ctor.client.logClient.AccessKeyID = ctor.res.accessKeyID
               /\ ctor.client.logClient.AccessKeySecret = ctor.res.accessKeySecret
               /\ ctor.client.logClient.SecurityToken = ctor.res.securityToken
               /\ ctor.client.nextExpire = ctor.res.expireTime
               /\ ctor.started = 1
               /\ flusher # "none"

C7_Witness ==
    /\ ctor.pc = "returned"
    /\ ctor.res.err = "nil"
    /\ ctor.client.logClient.SecurityToken = "st2"
    /\ ctor.started = 1

-----------------------------------------------------------------------------
(* Properties of the traffic mirror rule id *)

\* C8: the id is <traffic_mirror_filter_id>:<traffic_mirror_filter_ingress_
\* rule_id>, and an import splits it back into those two component ids.
C8_IdRoundTrip ==
    /\ ridId # <<>> => ridId = ridIn[1] \o <<":">> \o ridIn[2]
    /\ ridOut # NotImported => (ridOut.err = "nil" /\ ridOut.parts = ridIn)

C8_Witness ==
    /\ ridOut # NotImported
    /\ ridOut.parts = <<<<"t", "1">>, <<"1">>>>

-----------------------------------------------------------------------------
(* The requests of DescribeAmqpVirtualHost *)

\* the request map req with NextToken set to token, the rest as it was
WithNextToken(req, token) ==
    [k \in DOMAIN req \cup {"NextToken"} |->
        IF k = "NextToken" THEN token ELSE req[k]]

NoHostNamed(hosts, name) == \A i \in 1..Len(hosts) : hosts[i].Name # name

C11_State ==
    \* the first request has no NextToken
    /\ (pc = "attempt" /\ pageReqs = <<>>) =>
           /\ DOMAIN request = {"RegionId", "InstanceId", "MaxResults"}
           /\ request.RegionId = Region
           /\ request.InstanceId = Split(id, ":")[1]
           /\ request.MaxResults = MaxResults
    \* a retry sends what the page's first attempt sent
    /\ (pc = "attempt" /\ attempts > 0) => request = lastSent
    \* the first request of a later page
    /\ (pc = "attempt" /\ attempts = 0 /\ pageReqs # <<>>) =>
           /\ response.NextToken # NoToken
           /\ request = WithNextToken(lastSent, response.NextToken)
           /\ request.RegionId = Region
           /\ request.InstanceId = Split(id, ":")[1]
           /\ request.MaxResults = MaxResults
    \* what was sent asked for the page that pageReqs ends with
    /\ (pc \in {"wait", "retry", "retried"}) =>
           PageIndex(lastSent) = pageReqs[Len(pageReqs)]

C11_Step ==
    (/\ pc = "retried"
     /\ err = "nil"
     /\ response.hasData
     /\ Len(response.VirtualHosts) >= 1
     /\ NoHostNamed(response.VirtualHosts, parts[2])
     /\ response.NextToken # NoToken)
    => (/\ pc' = "attempt"
        /\ attempts' = 0
        /\ request' = WithNextToken(request, response.NextToken))

\* C11: after a non-empty page without a match whose response has a
\* non-empty NextToken, the next request is the old one with NextToken set to
\* that token (RegionId, InstanceId and MaxResults as before); the first
\* request has no NextToken; the retries of a page send the same request as
\* its first attempt.
C11_NextRequest == []C11_State /\ [][C11_Step]_vars

C11_Witness ==
    /\ pc = "attempt"
    /\ attempts = 1
    /\ pageReqs = <<1, 2>>
    /\ request.NextToken = 2
    /\ request = lastSent

====
